---- MODULE Spec2Model ----
(***************************************************************************)
(* Model of the cold-string crate (src/cold-string/src/lib.rs, vint.rs).   *)
(*                                                                         *)
(* A usize is a sequence of WIDTH bytes, least-significant byte first, so  *)
(* that rotations, masks and byte-order conversions are computed as the    *)
(* code computes them, on words of the target's real width.  A ColdString  *)
(* is the value of its one field `encoded`; the bytes of its storage are   *)
(* to_ne_bytes(encoded).  The heap is a map from the base address of each  *)
(* live block to its layout and contents.                                  *)
(***************************************************************************)
EXTENDS Integers, Sequences, FiniteSets, TLC

VARIABLES
    target,   \* the build target: [width |-> size_of::<usize>(), big |-> target_endian = "big"]
    vals,     \* the ColdString held by each variable of the client program (NoVal: none)
    src,      \* history: the string each live value was constructed from
    heap,     \* the allocator's live blocks: base address -> [size, align, mem]
    last,     \* the operation that produced this state and its outcome
    reads     \* the accessor call each reader thread is in

vars == <<target, vals, src, heap, last, reads>>

(***************************************************************************)
(* Bounds of the model.                                                    *)
(***************************************************************************)
MaxOver == 1         \* input strings are at most WIDTH + MaxOver bytes long
MaxRaw == 3          \* longest malformed byte slice

\* The variables of the client program that can hold a value, as cold1 and cold2 in
\* tests/property.rs.
Slots == {1, 2}

\* The bytes inputs are made of: NUL (ASCII), a two-byte lead (0xC2) and a
\* continuation byte (0xA5); "\u{A5}" is <<194, 165>>.
Alphabet == {0, 194, 165}

\* Targets the crate is built for: size_of::<usize>() and byte order.
Widths == {2, 4}
Targets == [width : Widths, big : BOOLEAN]

\* The same with the 64-bit targets of the documented examples.
WordSizes == Widths \cup {8}
Hosts == [width : WordSizes, big : BOOLEAN]

(***************************************************************************)
(* Byte and word arithmetic.                                               *)
(***************************************************************************)
RECURSIVE BitOp(_, _, _, _)
BitOp(op, a, b, n) ==
    IF n = 0 THEN 0
    ELSE LET x == a % 2
             y == b % 2
             r == CASE op = "and" -> x * y
                    [] op = "or"  -> IF x + y > 0 THEN 1 ELSE 0
                    [] op = "xor" -> (x + y) % 2
         IN  r + 2 * BitOp(op, a \div 2, b \div 2, n - 1)

\* <<F(1), ..., F(n)>>, as a sequence of values
Tabulate(n, F(_)) == SubSeq([i \in 1..n |-> F(i)], 1, n)

\* the bitwise operators on 4 bits, tabulated, and on u8
AndTable == [a \in 0..15 |-> [b \in 0..15 |-> BitOp("and", a, b, 4)]]
OrTable  == [a \in 0..15 |-> [b \in 0..15 |-> BitOp("or", a, b, 4)]]
XorTable == [a \in 0..15 |-> [b \in 0..15 |-> BitOp("xor", a, b, 4)]]

And8(a, b) == (16 * AndTable[a \div 16][b \div 16]) + AndTable[a % 16][b % 16]
Or8(a, b)  == (16 * OrTable[a \div 16][b \div 16]) + OrTable[a % 16][b % 16]
Xor8(a, b) == (16 * XorTable[a \div 16][b \div 16]) + XorTable[a % 16][b % 16]

\* x & y, x | y, x ^ y on usize
BitAnd(x, y) == Tabulate(Len(x), LAMBDA i : And8(x[i], y[i]))
BitOr(x, y)  == Tabulate(Len(x), LAMBDA i : Or8(x[i], y[i]))
BitXor(x, y) == Tabulate(Len(x), LAMBDA i : Xor8(x[i], y[i]))

Reverse(b) == Tabulate(Len(b), LAMBDA i : b[Len(b) + 1 - i])

RECURSIVE Pow2(_)
Pow2(n) == IF n = 0 THEN 1 ELSE 2 * Pow2(n - 1)

WIDTH == target.width

\* 256^k for the byte positions a number of the model can reach
Pow256 == [k \in 0..3 |-> Pow2(8 * k)]

\* n as a usize of w bytes
UsizeOf(w, n) == Tabulate(w, LAMBDA i : IF i <= 4 THEN (n \div Pow256[i - 1]) % 256 ELSE 0)

\* the small numbers as usize, per width
UsizeTable == [w \in WordSizes |-> [n \in 0..255 |-> UsizeOf(w, n)]]

\* n as usize
ToUsize(n) == IF n <= 255 THEN UsizeTable[WIDTH][n] ELSE UsizeOf(WIDTH, n)

RECURSIVE FromUsizeAt(_, _)
FromUsizeAt(x, i) == IF i > Len(x) THEN 0 ELSE x[i] + 256 * FromUsizeAt(x, i + 1)

\* usize as a number
FromUsize(x) == FromUsizeAt(x, 1)

to_le_bytes(x) == x
to_ne_bytes(x) == IF target.big THEN Reverse(x) ELSE x
from_ne_bytes(b) == IF target.big THEN Reverse(b) ELSE b

\* usize::from_ne_bytes(n.to_le_bytes()) for the tag constants, per target
NeOfLe == [t \in Hosts |-> [n \in {7, 128, 192, 248} |->
              IF t.big THEN Reverse(to_le_bytes(UsizeOf(t.width, n)))
                       ELSE to_le_bytes(UsizeOf(t.width, n))]]

\* usize::rotate_left(n): bit k of x becomes bit (k + n) mod 8*WIDTH
rotate_left(x, n) ==
    LET w == Len(x)
        m == n % (8 * w)
        q == m \div 8
        r == m % 8
        at(j) == x[((j - 1 - q) % w) + 1]
    IN  Tabulate(w, LAMBDA j : ((at(j) * Pow2(r)) % 256) + (at(j - 1) \div Pow2(8 - r)))

rotate_right(x, n) == rotate_left(x, (8 * Len(x)) - (n % (8 * Len(x))))

(***************************************************************************)
(* Inputs.                                                                 *)
(***************************************************************************)
SeqsUpTo(n) == UNION {[1..k -> Alphabet] : k \in 0..n}

InRange(b, lo, hi) == lo <= b /\ b <= hi

\* core::str::from_utf8's validation: the well-formed byte sequences of UTF-8
RECURSIVE Utf8ValidFrom(_, _)
Utf8ValidFrom(v, i) ==
    IF i > Len(v) THEN TRUE
    ELSE LET b == v[i]
             cont(k) == i + k <= Len(v) /\ InRange(v[i + k], 128, 191)
             second(lo, hi) == i + 1 <= Len(v) /\ InRange(v[i + 1], lo, hi)
         IN  CASE b < 128 -> Utf8ValidFrom(v, i + 1)
               [] InRange(b, 194, 223) -> cont(1) /\ Utf8ValidFrom(v, i + 2)
               [] b = 224 -> second(160, 191) /\ cont(2) /\ Utf8ValidFrom(v, i + 3)
               [] InRange(b, 225, 236) \/ InRange(b, 238, 239) ->
                      cont(1) /\ cont(2) /\ Utf8ValidFrom(v, i + 3)
               [] b = 237 -> second(128, 159) /\ cont(2) /\ Utf8ValidFrom(v, i + 3)
               [] b = 240 -> second(144, 191) /\ cont(2) /\ cont(3) /\ Utf8ValidFrom(v, i + 4)
               [] InRange(b, 241, 243) ->
                      cont(1) /\ cont(2) /\ cont(3) /\ Utf8ValidFrom(v, i + 4)
               [] b = 244 -> second(128, 143) /\ cont(2) /\ cont(3) /\ Utf8ValidFrom(v, i + 4)
               [] OTHER -> FALSE

Utf8Valid(v) == Utf8ValidFrom(v, 1)

StringsOf == [w \in Widths |-> {s \in SeqsUpTo(w + MaxOver) : Utf8Valid(s)}]
SlicesOf == [w \in Widths |-> StringsOf[w] \cup SeqsUpTo(MaxRaw)]

\* the values of type &str given to the model: every string of the alphabet
\* that fits inline, and those up to MaxOver bytes longer
Strings == StringsOf[WIDTH]

\* the values of type &[u8] given to from_utf8: every string, and every byte
\* sequence, well-formed or not, of at most MaxRaw bytes
Slices == SlicesOf[WIDTH]

(***************************************************************************)
(* The allocator.                                                          *)
(***************************************************************************)
HEAP_ALIGN == 4

NoVal == <<-1>>
NoBlock == [size |-> 0, align |-> 0, mem |-> <<>>]
Wild == -1           \* what a read outside every live block yields

null == ToUsize(0)
is_null(p) == p = null

\* Addresses alloc can return: multiples of HEAP_ALIGN, far enough apart that
\* blocks never overlap: 0x0..010, and 0xAC55..5508 with high bits set.
Pool ==
    { ToUsize(16),
      Tabulate(WIDTH, LAMBDA i : IF i = 1 THEN 8 ELSE IF i = WIDTH THEN 172 ELSE 85) }

\* alloc(layout): null, or the address of a block that is not live
AllocAnswers == {null} \cup {a \in Pool : a \notin DOMAIN heap}

\* *ptr.add(i)
Deref(p, i) ==
    IF p \in DOMAIN heap /\ i >= 0 /\ i < heap[p].size THEN heap[p].mem[i + 1] ELSE Wild

(***************************************************************************)
(* vint.rs                                                                 *)
(***************************************************************************)
\* A u64 is a sequence of U64_BYTES bytes, least-significant byte first.
U64_BYTES == 8

\* `n as u64` for the small numbers
U64Table == [n \in 0..255 |-> UsizeOf(U64_BYTES, n)]
ToU64(n) == IF n <= 255 THEN U64Table[n] ELSE UsizeOf(U64_BYTES, n)

\* what a read that left defined behaviour yields in place of a u64
NoU64 == <<Wild>>

\* `x as usize`, as a number
AsUsize(x) == IF x = NoU64 THEN Wild ELSE FromUsize(SubSeq(x, 1, WIDTH))

\* x >> n and x << n for n below the width; bits shifted out are lost
Shr(x, n) ==
    LET w == Len(x)
        q == n \div 8
        r == n % 8
        at(j) == IF j >= 1 /\ j <= w THEN x[j] ELSE 0
    IN  Tabulate(w, LAMBDA j : (at(j + q) \div Pow2(r)) + ((at(j + q + 1) * Pow2(8 - r)) % 256))

Shl(x, n) ==
    LET w == Len(x)
        q == n \div 8
        r == n % 8
        at(j) == IF j >= 1 /\ j <= w THEN x[j] ELSE 0
    IN  Tabulate(w, LAMBDA j : ((at(j - q) * Pow2(r)) % 256) + (at(j - q - 1) \div Pow2(8 - r)))

RECURSIVE VarIntWriteLoop(_, _, _)
VarIntWriteLoop(value, i, buf) ==
    LET low == And8(value[1], 127)
        rest == Shr(value, 7)
        byte == IF rest # ToU64(0) THEN Or8(low, 128) ELSE low
        buf2 == [buf EXCEPT ![i + 1] = byte]
    IN  IF rest = ToU64(0) THEN [n |-> i + 1, buf |-> buf2]
        ELSE VarIntWriteLoop(rest, i + 1, buf2)

\* write keeping only the low 32 bits of the value
VarInt_write32(value) ==
    VarIntWriteLoop(SubSeq(value, 1, 4) \o <<0, 0, 0, 0>>, 0, <<0, 0, 0, 0, 0, 0, 0, 0, 0, 0>>)

\* value: u64
VarInt_write(value) == VarIntWriteLoop(value, 0, <<0, 0, 0, 0, 0, 0, 0, 0, 0, 0>>)

\* A read outside every live block, or a shift by 64 bits or more, leaves
\* defined behaviour: the result is NoU64.
RECURSIVE VarIntReadLoop(_, _, _, _)
VarIntReadLoop(p, result, shift, i) ==
    LET byte == Deref(p, i)
        result2 == BitOr(result, Shl(ToU64(And8(byte, 127)), shift))
    IN  IF byte = Wild \/ shift >= 8 * U64_BYTES THEN [value |-> NoU64, n |-> i + 1]
        ELSE IF And8(byte, 128) = 0 THEN [value |-> result2, n |-> i + 1]
        ELSE VarIntReadLoop(p, result2, shift + 7, i + 1)

VarInt_read(p) == VarIntReadLoop(p, ToU64(0), 0, 0)

(***************************************************************************)
(* lib.rs: the encoded word.                                               *)
(***************************************************************************)
TAG_MASK == NeOfLe[target][192]
INLINE_TAG == NeOfLe[target][248]
PTR_TAG == NeOfLe[target][128]
LEN_MASK == NeOfLe[target][7]
ROT == IF target.big THEN 8 * (WIDTH - 1) ELSE 0

\* `x as u8`
AsU8(x) == x[1]

\* inline_buf that never writes the tag byte
inline_buf_untagged(s) == Tabulate(WIDTH, LAMBDA i : 0)

inline_buf(s) ==
    LET buf == Tabulate(WIDTH, LAMBDA i : 0)
        tag == AsU8(rotate_right(BitOr(INLINE_TAG, rotate_left(ToUsize(Len(s)), ROT)), ROT))
    IN  IF Len(s) < WIDTH THEN [buf EXCEPT ![1] = tag] ELSE buf

\* from_inline_buf through usize::from_le_bytes
from_inline_buf_le(b) == b

from_inline_buf(b) == from_ne_bytes(b)

\* utf8_start that always skips a tag byte
utf8_start_one(l) == 1

utf8_start(l) == IF l < WIDTH THEN 1 ELSE 0

new_inline(s) ==
    LET buf == inline_buf(s)
        start == utf8_start(Len(s))
    IN  from_inline_buf(Tabulate(WIDTH, LAMBDA i :
            IF start < i /\ i <= Len(s) + start THEN s[i - start] ELSE buf[i]))

ptr(self) == self

addr(self) == ptr(self)

tag(self) == BitAnd(addr(self), TAG_MASK)

is_inline(self) == tag(self) # PTR_TAG

\* heap_ptr rotating as on a little-endian target whatever the target
heap_ptr_le(self) == rotate_right(BitXor(ptr(self), PTR_TAG), 6)

heap_ptr(self) == rotate_right(BitXor(ptr(self), PTR_TAG), 6 + ROT)

\* inline_len without the test of the INLINE_TAG bits
inline_len_masked(self) == FromUsize(rotate_right(BitAnd(addr(self), LEN_MASK), ROT))

inline_len(self) ==
    IF BitAnd(addr(self), INLINE_TAG) = INLINE_TAG
    THEN FromUsize(rotate_right(BitAnd(addr(self), LEN_MASK), ROT))
    ELSE WIDTH

len(self) == IF is_inline(self) THEN inline_len(self) ELSE AsUsize(VarInt_read(heap_ptr(self)).value)

\* the bytes of the value's own storage, as addr_of!(self.encoded) sees them
SelfBytes(self) == to_ne_bytes(self)

decode_inline(self) ==
    LET l == inline_len(self)
        start == utf8_start(l)
        bytes == SelfBytes(self)
    IN  Tabulate(l, LAMBDA k : IF start + k <= WIDTH THEN bytes[start + k] ELSE Wild)

decode_heap(self) ==
    LET p == heap_ptr(self)
        r == VarInt_read(p)
        l == AsUsize(r.value)
    IN  Tabulate(IF l = Wild THEN 0 ELSE l, LAMBDA k : Deref(p, r.n + k - 1))

as_bytes(self) == IF is_inline(self) THEN decode_inline(self) ELSE decode_heap(self)

as_str(self) == as_bytes(self)

is_empty(self) == len(self) = 0

\* eq comparing the encoded words in every form
eq_word(self, other) == ptr(self) = ptr(other)

\* as_bytes and len once is_inline() has answered: the arm the match takes
as_bytes_arm(self, inline) == IF inline THEN decode_inline(self) ELSE decode_heap(self)

len_arm(self, inline) ==
    IF inline THEN inline_len(self) ELSE AsUsize(VarInt_read(heap_ptr(self)).value)

\* impl PartialEq for ColdString
eq(self, other) ==
    CASE is_inline(self) /\ is_inline(other) -> ptr(self) = ptr(other)
      [] ~is_inline(self) /\ ~is_inline(other) -> decode_heap(self) = decode_heap(other)
      [] OTHER -> FALSE

\* eq against a str comparing the lengths only
eq_str_len(self, other) == len(self) = Len(other)

\* impl PartialEq<str> for ColdString
eq_str(self, other) ==
    IF is_inline(self) THEN decode_inline(self) = other ELSE decode_heap(self) = other

\* impl PartialEq<ColdString> for str, and the two impls on &str, which delegate
str_eq(s, other) == eq_str(other, s)

\* What <str as Hash>::hash writes to the hasher: the bytes, then 0xFF.
StrHash(s) == s \o <<255>>

\* hash writing the bytes of the encoded word
hash_word(self) == StrHash(SelfBytes(self))

\* impl Hash for ColdString: what it writes to the hasher
hash(self) == StrHash(as_str(self))

\* impl Borrow<str> for ColdString
borrow(self) == as_str(self)

(***************************************************************************)
(* lib.rs: the layout of the type.  A layout is [size, align]; a struct    *)
(* places its fields in order, each at the next multiple of its alignment, *)
(* and repr(packed) lowers every alignment to 1.                           *)
(***************************************************************************)
RoundUp(n, a) == ((n + a - 1) \div a) * a

FieldAlign(f, packed) == IF packed THEN 1 ELSE f.align

\* the offset after the first k fields
RECURSIVE StructEnd(_, _, _)
StructEnd(fields, k, packed) ==
    IF k = 0 THEN 0
    ELSE RoundUp(StructEnd(fields, k - 1, packed), FieldAlign(fields[k], packed))
             + fields[k].size

\* the largest alignment among the first k fields
RECURSIVE StructAlign(_, _, _)
StructAlign(fields, k, packed) ==
    IF k = 0 THEN 1
    ELSE LET a == StructAlign(fields, k - 1, packed)
             b == FieldAlign(fields[k], packed)
         IN  IF a > b THEN a ELSE b

StructLayout(fields, packed) ==
    LET a == StructAlign(fields, Len(fields), packed)
    IN  [size |-> RoundUp(StructEnd(fields, Len(fields), packed), a), align |-> a]

\* *mut u8 and u8
PtrLayout == [size |-> WIDTH, align |-> WIDTH]
U8Layout == [size |-> 1, align |-> 1]

\* struct ColdString without #[repr(packed)]
ColdStringLayoutUnpacked == StructLayout(<<PtrLayout>>, FALSE)

\* #[repr(packed)] pub struct ColdString { encoded: *mut u8 }
ColdStringLayout == StructLayout(<<PtrLayout>>, TRUE)

\* struct Foo { _s: ColdString, _b: u8 }
FooLayout == StructLayout(<<ColdStringLayout, U8Layout>>, FALSE)

(***************************************************************************)
(* lib.rs: constructors, clone and drop.  A constructor's outcome is the   *)
(* value it returns (NoVal when it returns none), the allocator calls it   *)
(* made, the block it wrote, and how it ended.                             *)
(***************************************************************************)
Outcome(ret, encoded, at, block, allocs) ==
    [ret |-> ret, encoded |-> encoded, at |-> at, block |-> block, allocs |-> allocs]

\* new_heap without the test of ptr.is_null()
new_heap_unchecked(s, p) ==
    LET l == Len(s)
        w == VarInt_write(ToU64(l))
        mem == Tabulate(w.n + l, LAMBDA k : IF k <= w.n THEN w.buf[k] ELSE s[k - w.n])
    IN  Outcome("ok", BitOr(rotate_left(p, 6 + ROT), PTR_TAG), p,
                [size |-> w.n + l, align |-> HEAP_ALIGN, mem |-> mem], 1)

\* new_heap with a length header of one byte whatever the length
new_heap_1byte(s, p) ==
    LET l == Len(s)
        w == VarInt_write(ToU64(l))
    IN  Outcome(IF is_null(p) THEN "abort" ELSE "ok",
                IF is_null(p) THEN NoVal ELSE BitOr(rotate_left(p, 6 + ROT), PTR_TAG), p,
                IF is_null(p) THEN NoBlock
                ELSE [size |-> 1 + l, align |-> HEAP_ALIGN, mem |-> <<w.buf[1]>> \o s], 1)

\* p: what alloc(layout) returns
new_heap(s, p) ==
    LET l == Len(s)
        w == VarInt_write(ToU64(l))
        vint_len == w.n
        total == vint_len + l
        mem == Tabulate(total, LAMBDA k : IF k <= vint_len THEN w.buf[k] ELSE s[k - vint_len])
        encoded == BitOr(rotate_left(p, 6 + ROT), PTR_TAG)
    IN  IF is_null(p)
        THEN Outcome("abort", NoVal, p, NoBlock, 1)
        ELSE Outcome("ok", encoded, p, [size |-> total, align |-> HEAP_ALIGN, mem |-> mem], 1)

\* new with the inline test `s.len() < WIDTH`
new_strict(s, p) ==
    IF Len(s) < WIDTH
    THEN Outcome("ok", new_inline(s), null, NoBlock, 0)
    ELSE new_heap(s, p)

new(s, p) ==
    IF Len(s) <= WIDTH
    THEN Outcome("ok", new_inline(s), null, NoBlock, 0)
    ELSE new_heap(s, p)

\* from_utf8 without the validation
from_utf8_lossy(v, p) == new(v, p)

from_utf8(v, p) ==
    IF Utf8Valid(v) THEN new(v, p) ELSE Outcome("Utf8Error", NoVal, null, NoBlock, 0)

from_utf8_unchecked(v, p) == new(v, p)

\* new_inline_const refusing every string that is not shorter than WIDTH
new_inline_const_strict(s) ==
    IF Len(s) >= WIDTH
    THEN Outcome("panic", NoVal, null, NoBlock, 0)
    ELSE Outcome("ok", new_inline(s), null, NoBlock, 0)

new_inline_const(s) ==
    IF Len(s) > WIDTH
    THEN Outcome("panic", NoVal, null, NoBlock, 0)
    ELSE LET buf == inline_buf(s)
             start == utf8_start(Len(s))
         IN  Outcome("ok",
                     from_inline_buf(Tabulate(WIDTH, LAMBDA i :
                         IF start < i /\ i <= Len(s) + start THEN s[i - start] ELSE buf[i])),
                     null, NoBlock, 0)

default == Outcome("ok", new_inline(<<>>), null, NoBlock, 0)

\* From<&str>, From<String>, FromStr and FromIterator<char> all end in Self::new
from(s, p) == new(s, p)

\* clone losing the last byte of a heap value
clone_short(self, p) ==
    IF is_inline(self)
    THEN Outcome("ok", ptr(self), null, NoBlock, 0)
    ELSE new_heap(SubSeq(as_str(self), 1, len(self) - 1), p)

\* clone re-encoding on the heap in both forms
clone_realloc(self, p) == new_heap(as_str(self), p)

\* clone copying the word in both forms
clone_shallow(self, p) == Outcome("ok", ptr(self), null, NoBlock, 0)

clone(self, p) ==
    IF is_inline(self)
    THEN Outcome("ok", ptr(self), null, NoBlock, 0)
    ELSE new_heap(as_str(self), p)

\* drop calling dealloc in both forms
\* drop releasing the payload without the length header
drop_payload(self) ==
    IF ~is_inline(self)
    THEN <<[ptr |-> heap_ptr(self), size |-> AsUsize(VarInt_read(heap_ptr(self)).value),
            align |-> HEAP_ALIGN]>>
    ELSE <<>>

drop_always(self) ==
    LET p == heap_ptr(self)
        r == VarInt_read(p)
    IN  <<[ptr |-> p, size |-> r.n + AsUsize(r.value), align |-> HEAP_ALIGN]>>

\* the dealloc calls drop makes: <<>> or <<[ptr, size, align]>>
drop(self) ==
    IF ~is_inline(self)
    THEN LET p == heap_ptr(self)
             r == VarInt_read(p)
             total == r.n + AsUsize(r.value)
         IN  <<[ptr |-> p, size |-> total, align |-> HEAP_ALIGN]>>
    ELSE <<>>

(***************************************************************************)
(* lib.rs, rkyv.rs: the serialization adapters.                            *)
(***************************************************************************)
\* impl Deref for ColdString
deref(self) == as_str(self)

\* serialize emitting the bytes of the encoded word
serialize_word(self) == [kind |-> "Str", value |-> SelfBytes(self)]

\* impl serde::Serialize: the token given to the serializer
serialize(self) == [kind |-> "Str", value |-> as_str(self)]

\* impl serde::Deserialize, from a string token
deserialize(token, p) == new(token.value, p)

\* impl rkyv::Archive, rkyv::Serialize: the ArchivedString, made from the str self derefs to
rkyv_serialize(self) == [archived |-> deref(self)]

\* impl rkyv::Deserialize<ColdString, D> for ArchivedString
rkyv_deserialize(a, p) == new(a.archived, p)

\* impl PartialEq<ColdString> for ArchivedString, and its converse
archived_eq(a, other) == as_str(other) = a.archived

(***************************************************************************)
(* The client program: its variables each hold a ColdString or nothing;    *)
(* it constructs, clones and drops values in any order.                    *)
(***************************************************************************)
Live(i) == vals[i] # NoVal

LiveSlots == {i \in Slots : Live(i)}

\* kind: "none" | "from_utf8" | "ctor" (the constructors that take a str or
\* nothing) | "clone" | "drop"; slot: the variable bound or dropped; from: the
\* variable cloned; valid: whether the bytes given were well-formed UTF-8;
\* ret: "ok" | "Utf8Error" | "panic" | "abort" | "double_free" | "bad_layout";
\* allocs, deallocs: allocator calls made
Last(kind, slot, from_slot, valid, ret, allocs, deallocs) ==
    [kind |-> kind, slot |-> slot, from |-> from_slot, valid |-> valid, ret |-> ret,
     allocs |-> allocs, deallocs |-> deallocs]

\* handle_alloc_error, a panic and undefined behaviour end the run
Running == last.ret \notin {"abort", "panic", "double_free", "bad_layout"}

\* Threads sharing a &ColdString (unsafe impl Sync), and a thread in no call.
Readers == {"reader1", "reader2"}
Idle == [pc |-> "idle"]

Init ==
    /\ target \in Targets
    /\ vals = [i \in Slots |-> NoVal]
    /\ src = [i \in Slots |-> <<>>]
    /\ heap = [a \in {} |-> NoBlock]
    /\ last = Last("none", 0, 0, TRUE, "ok", 0, 0)
    /\ reads = [r \in Readers |-> Idle]

\* `let x_i = ...`: bind the outcome r of a constructor or of clone to variable i
Bind(kind, i, from_slot, s, valid, r) ==
    /\ last' = Last(kind, i, from_slot, valid, r.ret, r.allocs, 0)
    /\ IF r.ret = "ok"
       THEN /\ vals' = [vals EXCEPT ![i] = r.encoded]
            /\ src' = [src EXCEPT ![i] = s]
            /\ heap' = IF r.block = NoBlock THEN heap ELSE (r.at :> r.block) @@ heap
       ELSE UNCHANGED <<vals, src, heap>>
    /\ UNCHANGED <<target, reads>>

\* Run F, which calls alloc at most once; the allocator's answer is drawn only
\* when F calls it.
Call(kind, i, from_slot, s, valid, F(_)) ==
    \E r0 \in {F(null)} :
        IF r0.allocs = 0
        THEN Bind(kind, i, from_slot, s, valid, r0)
        ELSE \E p \in AllocAnswers : \E r \in {F(p)} : Bind(kind, i, from_slot, s, valid, r)

New(i, s) ==
    /\ Running /\ ~Live(i)
    /\ Call("ctor", i, 0, s, TRUE, LAMBDA p : new(s, p))

FromUtf8(i, v) ==
    /\ Running /\ ~Live(i)
    /\ Call("from_utf8", i, 0, v, Utf8Valid(v), LAMBDA p : from_utf8(v, p))

FromUtf8Unchecked(i, v) ==
    /\ Running /\ ~Live(i)
    /\ Call("ctor", i, 0, v, TRUE, LAMBDA p : from_utf8_unchecked(v, p))

NewInlineConst(i, s) ==
    /\ Running /\ ~Live(i)
    /\ Bind("ctor", i, 0, s, TRUE, new_inline_const(s))

Default(i) ==
    /\ Running /\ ~Live(i)
    /\ Bind("ctor", i, 0, <<>>, TRUE, default)

From(i, s) ==
    /\ Running /\ ~Live(i)
    /\ Call("ctor", i, 0, s, TRUE, LAMBDA p : from(s, p))

Clone(i, j) ==
    /\ Running /\ Live(i) /\ ~Live(j)
    /\ Call("clone", j, i, src[i], TRUE, LAMBDA p : clone(vals[i], p))

\* dealloc(ptr, layout) on a block that is not live, or with another layout
\* than it was allocated with, is undefined behaviour: the run ends there.
Drop(i) ==
    /\ Running /\ Live(i)
    /\ vals' = [vals EXCEPT ![i] = NoVal]
    /\ src' = [src EXCEPT ![i] = <<>>]
    /\ \E calls \in {drop(vals[i])} :
           IF calls = <<>>
           THEN /\ heap' = heap
                /\ last' = Last("drop", i, 0, TRUE, "ok", 0, 0)
           ELSE \E c \in {calls[1]} :
                IF c.ptr \notin DOMAIN heap
                THEN /\ heap' = heap
                     /\ last' = Last("drop", i, 0, TRUE, "double_free", 0, 1)
                ELSE IF heap[c.ptr].size # c.size \/ heap[c.ptr].align # c.align
                THEN /\ heap' = heap
                     /\ last' = Last("drop", i, 0, TRUE, "bad_layout", 0, 1)
                ELSE /\ heap' = [a \in DOMAIN heap \ {c.ptr} |-> heap[a]]
                     /\ last' = Last("drop", i, 0, TRUE, "ok", 0, 1)
    /\ UNCHANGED <<target, reads>>

\* the variables a constructor's result can be bound to
Free == {i \in Slots : Running /\ ~Live(i)}

\* the variables holding a value
Held == {i \in Slots : Running /\ Live(i)}

Next ==
    \/ \E i \in Free, s \in Strings : New(i, s)
    \/ \E i \in Free, v \in Slices : FromUtf8(i, v)
    \/ \E i \in Free, v \in Strings : FromUtf8Unchecked(i, v)
    \/ \E i \in Free, s \in Strings : NewInlineConst(i, s)
    \/ \E i \in Free : Default(i)
    \/ \E i \in Free, s \in Strings : From(i, s)
    \/ \E i \in Held, j \in Free : Clone(i, j)
    \/ \E i \in Held : Drop(i)

Spec == Init /\ [][Next]_vars

TypeOK ==
    /\ target \in Targets
    /\ \A i \in Slots : vals[i] = NoVal \/ Len(vals[i]) = WIDTH

(***************************************************************************)
(* vint.rs on its own, as tests::vint_round_trip runs it: write a value    *)
(* into a buffer, then read the buffer back.                               *)
(***************************************************************************)
\* the u64 whose bits lo .. hi-1 are set
Ones(lo, hi) ==
    Tabulate(U64_BYTES, LAMBDA i :
        LET a == IF lo > 8 * (i - 1) THEN lo - (8 * (i - 1)) ELSE 0
            z == IF hi < 8 * i THEN hi - (8 * (i - 1)) ELSE 8
        IN  IF z > a THEN Pow2(z) - Pow2(a) ELSE 0)

\* the values written: every run of consecutive one bits, among them 0, 1,
\* 63, 64, 2^56 - 1, 2^56 and u64::MAX
VarIntInputs == {Ones(lo, hi) : lo \in 0..(8 * U64_BYTES - 1), hi \in 0..(8 * U64_BYTES)}

\* where the test's buffer lies
BufAddrs == {ToUsize(64)}

\* let (wrote, b) = VarInt::write(x), the buffer b at address p
VarIntWrite(x, p) ==
    /\ last.kind = "none"
    /\ \E w \in {VarInt_write(x)} :
           /\ heap' = (p :> [size |-> Len(w.buf), align |-> 1, mem |-> w.buf]) @@ heap
           /\ last' = [kind |-> "vint_write", value |-> x, wrote |-> w.n, at |-> p,
                       y |-> NoU64, read |-> 0]
    /\ UNCHANGED <<target, vals, src, reads>>

\* let (y, read) = VarInt::read(b.as_ptr())
VarIntRead ==
    /\ last.kind = "vint_write"
    /\ \E r \in {VarInt_read(last.at)} :
           last' = [last EXCEPT !.kind = "vint_read", !.y = r.value, !.read = r.n]
    /\ UNCHANGED <<target, vals, src, heap, reads>>

\* the values the test has yet to write
ToWrite == IF last.kind = "none" THEN VarIntInputs ELSE {}

CodecNext ==
    \/ \E x \in ToWrite, p \in BufAddrs : VarIntWrite(x, p)
    \/ VarIntRead

CodecSpec == Init /\ [][CodecNext]_vars

(***************************************************************************)
(* tests::test_unaligned_placement: a value is constructed, moved to every *)
(* byte offset of a buffer and read from there.                            *)
(***************************************************************************)
\* let mut buffer = [0u8; 32], four words long
Buffer == [size |-> 4 * WIDTH, align |-> 1, mem |-> Tabulate(4 * WIDTH, LAMBDA k : 0)]

\* a word-aligned load: the address rounded down to a multiple of WIDTH
read_aligned(p, off) ==
    from_ne_bytes(Tabulate(WIDTH, LAMBDA k : Deref(p, ((off \div WIDTH) * WIDTH) + k - 1)))

\* ptr::read_unaligned(p.add(off) as *const usize): the WIDTH bytes there
read_unaligned(p, off) == from_ne_bytes(Tabulate(WIDTH, LAMBDA k : Deref(p, off + k - 1)))

\* ptr::write_unaligned(p.add(off) as *mut usize, word) on the block b
write_unaligned(b, off, word) ==
    [b EXCEPT !.mem = Tabulate(b.size, LAMBDA k :
        IF off < k /\ k <= off + WIDTH THEN to_ne_bytes(word)[k - off] ELSE b.mem[k])]

\* ptr::write_unaligned(dst, s): the value of variable i moves into the buffer
WriteUnaligned(i, off, p) ==
    /\ last.kind = "ctor" /\ last.ret = "ok" /\ Live(i)
    /\ heap' = (p :> write_unaligned(Buffer, off, vals[i])) @@ heap
    /\ vals' = [vals EXCEPT ![i] = NoVal]
    /\ src' = [src EXCEPT ![i] = <<>>]
    /\ last' = [kind |-> "write_unaligned", slot |-> i, ret |-> "ok", at |-> p,
                offset |-> off, word |-> vals[i], s |-> src[i]]
    /\ UNCHANGED <<target, reads>>

\* let recovered = ptr::read_unaligned(dst), bound to variable j
ReadUnaligned(j) ==
    /\ last.kind = "write_unaligned" /\ ~Live(j)
    /\ vals' = [vals EXCEPT ![j] = read_unaligned(last.at, last.offset)]
    /\ src' = [src EXCEPT ![j] = last.s]
    /\ last' = [last EXCEPT !.kind = "read_unaligned", !.slot = j]
    /\ UNCHANGED <<target, heap, reads>>

\* the variable the test constructs into, once
Fresh == IF last.kind = "none" THEN {1} ELSE {}

\* the offsets the test moves a constructed value to
Offsets == IF last.kind = "ctor" /\ last.ret = "ok" THEN 0..(WIDTH - 1) ELSE {}

PlacementNext ==
    \/ \E i \in Fresh, s \in Strings : New(i, s)
    \/ \E off \in Offsets, p \in BufAddrs : WriteUnaligned(1, off, p)
    \/ ReadUnaligned(2)

PlacementSpec == Init /\ [][PlacementNext]_vars

(***************************************************************************)
(* The adapters at work, as serde_tests and rkyv.rs tests::roundtrip run   *)
(* them: a value is constructed, serialized, and deserialized from what    *)
(* was emitted.                                                            *)
(***************************************************************************)
Serialize(i) ==
    /\ last.kind = "ctor" /\ last.ret = "ok" /\ Live(i)
    /\ last' = [kind |-> "serialize", slot |-> i, ret |-> "ok", token |-> serialize(vals[i])]
    /\ UNCHANGED <<target, vals, src, heap, reads>>

Deserialize(i, j) ==
    /\ last.kind = "serialize" /\ last.slot = i /\ ~Live(j)
    /\ Call("deserialize", j, i, last.token.value, TRUE, LAMBDA p : deserialize(last.token, p))

RkyvSerialize(i) ==
    /\ last.kind = "ctor" /\ last.ret = "ok" /\ Live(i)
    /\ last' = [kind |-> "rkyv_serialize", slot |-> i, ret |-> "ok",
                bytes |-> rkyv_serialize(vals[i])]
    /\ UNCHANGED <<target, vals, src, heap, reads>>

RkyvDeserialize(i, j) ==
    /\ last.kind = "rkyv_serialize" /\ last.slot = i /\ ~Live(j)
    /\ Call("rkyv_deserialize", j, i, last.bytes.archived, TRUE,
            LAMBDA p : rkyv_deserialize(last.bytes, p))

SerdeNext ==
    \/ \E i \in Fresh, s \in Strings : New(i, s)
    \/ Serialize(1)
    \/ Deserialize(1, 2)
    \/ RkyvSerialize(1)
    \/ RkyvDeserialize(1, 2)

SerdeSpec == Init /\ [][SerdeNext]_vars

(***************************************************************************)
(* The same program on a little-endian and on a big-endian host: two       *)
(* values are constructed and observed through the public API, then the    *)
(* same strings are constructed at the same addresses on the host of the   *)
(* other byte order and observed again.                                    *)
(***************************************************************************)
\* what the public API shows of the values held
Observed ==
    [view |-> [i \in Slots |->
                  [is_inline |-> is_inline(vals[i]), len |-> len(vals[i]),
                   is_empty |-> is_empty(vals[i]), as_bytes |-> as_bytes(vals[i])]],
     eq |-> [i \in Slots |-> [j \in Slots |-> eq(vals[i], vals[j])]],
     eq_str |-> [i \in Slots |-> [j \in Slots |-> eq_str(vals[i], src[j])]]]

\* observe the values, then move to the host of the other byte order
SwitchHost ==
    /\ last.kind = "ctor" /\ last.ret = "ok" /\ LiveSlots = Slots
    /\ last' = [kind |-> "observed", ret |-> "ok", seen |-> Observed, strs |-> src,
                addrs |-> [i \in Slots |->
                              IF is_inline(vals[i]) THEN null ELSE heap_ptr(vals[i])]]
    /\ target' = [target EXCEPT !.big = ~target.big]
    /\ UNCHANGED reads
    /\ vals' = [i \in Slots |-> NoVal]
    /\ src' = [i \in Slots |-> <<>>]
    /\ heap' = [a \in {} |-> NoBlock]

\* construct the same strings, the allocator answering with the same addresses
Rerun ==
    /\ last.kind = "observed"
    /\ \E rs \in {[i \in Slots |-> new(last.strs[i], last.addrs[i])]} :
           /\ vals' = [i \in Slots |-> rs[i].encoded]
           /\ heap' = [a \in {rs[i].at : i \in {k \in Slots : rs[k].block # NoBlock}} |->
                           rs[CHOOSE i \in Slots : rs[i].at = a /\ rs[i].block # NoBlock].block]
    /\ src' = last.strs
    /\ last' = [last EXCEPT !.kind = "rerun"]
    /\ UNCHANGED <<target, reads>>

\* the variable the program constructs into next, in order
Unbound ==
    IF last.kind \in {"none", "ctor"} THEN {i \in Free : \A j \in Free : i <= j} ELSE {}

EndianNext ==
    \/ \E i \in Unbound, s \in Strings : New(i, s)
    \/ SwitchHost
    \/ Rerun

EndianSpec == Init /\ [][EndianNext]_vars

(***************************************************************************)
(* Readers: threads that share one value by reference call its accessors   *)
(* while the owner clones it and drops the clone.  A call reads the word   *)
(* to choose its arm (is_inline), then reads the bytes through it.         *)
(***************************************************************************)
BeginRead(r, i) ==
    /\ reads[r].pc = "idle" /\ Running /\ Live(i)
    /\ reads' = [reads EXCEPT ![r] =
           [pc |-> "reading", slot |-> i, inline |-> is_inline(vals[i]),
            alone |-> [as_bytes |-> as_bytes(vals[i]), len |-> len(vals[i])]]]
    /\ UNCHANGED <<target, vals, src, heap, last>>

EndRead(r) ==
    /\ reads[r].pc = "reading"
    /\ \E c \in {reads[r]} :
           reads' = [reads EXCEPT ![r] =
               [pc |-> "done", slot |-> c.slot, inline |-> c.inline, alone |-> c.alone,
                ret |-> [as_bytes |-> as_bytes_arm(vals[c.slot], c.inline),
                         len |-> len_arm(vals[c.slot], c.inline)]]]
    /\ UNCHANGED <<target, vals, src, heap, last>>

Return(r) ==
    /\ reads[r].pc = "done"
    /\ reads' = [reads EXCEPT ![r] = Idle]
    /\ UNCHANGED <<target, vals, src, heap, last>>

ReaderNext ==
    \/ \E i \in Fresh, s \in Strings : New(i, s)
    \/ Clone(1, 2)
    \/ Drop(2)
    \/ \E r \in Readers : BeginRead(r, 1)
    \/ \E r \in Readers : EndRead(r)
    \/ \E r \in Readers : Return(r)

ReaderSpec == Init /\ [][ReaderNext]_vars

(***************************************************************************)
(* Forms: values built from strings whose first character takes the        *)
(* extreme lead bytes of UTF-8, on targets of 2, 4 and 8 bytes.            *)
(***************************************************************************)
\* the first and last character of each UTF-8 length, and 'a'
Chars ==
    { <<0>>, <<97>>, <<127>>, <<194, 128>>, <<223, 191>>, <<224, 160, 128>>,
      <<239, 191, 191>>, <<240, 144, 128, 128>>, <<244, 143, 191, 191>> }

\* c followed by 'a's up to l bytes
Pad(c, l) == c \o [k \in 1..(l - Len(c)) |-> 97]

qwerty == <<113, 119, 101, 114, 116, 121>>

FormStrings ==
    { s \in {<<>>, qwerty} \cup {Pad(c, l) : c \in Chars, l \in 1..(WIDTH + MaxOver)} :
          Len(s) <= WIDTH + MaxOver /\ Utf8Valid(s) }

\* the index in memory of the byte TAG_MASK selects
tag_index == CHOOSE k \in 0..(WIDTH - 1) : to_ne_bytes(TAG_MASK)[k + 1] # 0

\* the byte of the encoded word the tag constants select: the first in memory
discriminant(self) == SelfBytes(self)[1]

\* the arm the accessors take for a word
decoded_form(self) ==
    IF ~is_inline(self) THEN "heap"
    ELSE IF BitAnd(addr(self), INLINE_TAG) = INLINE_TAG THEN "short-inline"
    ELSE "full-inline"

FormInit ==
    /\ target \in Hosts
    /\ vals = [i \in Slots |-> NoVal]
    /\ src = [i \in Slots |-> <<>>]
    /\ heap = [a \in {} |-> NoBlock]
    /\ last = Last("none", 0, 0, TRUE, "ok", 0, 0)
    /\ reads = [r \in Readers |-> Idle]

FormNext == \E i \in Unbound, s \in FormStrings : New(i, s)

FormSpec == FormInit /\ [][FormNext]_vars

(***************************************************************************)
(* Addresses: heap values built at whatever 4-aligned address the          *)
(* allocator may return: every one on 2 bytes, every run of one bits on 4  *)
(* and 8 bytes.                                                            *)
(***************************************************************************)
AlignedAddrs ==
    IF WIDTH = 2
    THEN {a \in [1..2 -> 0..255] : a[1] % HEAP_ALIGN = 0 /\ ~is_null(a)}
    ELSE (Pool \cup {SubSeq(Ones(lo, hi), 1, WIDTH) :
                         lo \in 2..(8 * WIDTH - 1), hi \in 3..(8 * WIDTH)}) \ {null}

\* a string one byte too long for the word
Overlong == [k \in 1..(WIDTH + 1) |-> 97]

\* ColdString::new(s) where alloc answers a
NewAt(i, a) ==
    /\ Running /\ ~Live(i)
    /\ \E r \in {new(Overlong, a)} : Bind("ctor", i, 0, Overlong, TRUE, r)

\* self.heap_ptr()
HeapPtr(i) ==
    /\ last.kind = "ctor" /\ Live(i)
    /\ last' = [kind |-> "heap_ptr", slot |-> i, ret |-> "ok", ptr |-> heap_ptr(vals[i])]
    /\ UNCHANGED <<target, vals, src, heap, reads>>

AddrNext ==
    \/ \E i \in Fresh : \E a \in AlignedAddrs : NewAt(i, a)
    \/ HeapPtr(1)

AddrSpec == FormInit /\ [][AddrNext]_vars

(***************************************************************************)
(* Blocks: heap values of the lengths at which the length header grows     *)
(* from one byte to two and to three, and inline values of the longest     *)
(* lengths of each form, constructed, cloned and dropped.                  *)
(***************************************************************************)
HeaderSteps == {127, 128, 129, 16383, 16384}

LongStrings ==
    {Pad(c, l) : c \in {<<97>>, <<194, 128>>}, l \in {WIDTH + 1} \cup HeaderSteps}

\* strings that fit the word: the shortest, the longest short-inline one and
\* the full-inline ones
ShortStrings ==
    {<<>>} \cup {Pad(c, l) : c \in {<<97>>, <<194, 128>>}, l \in {WIDTH - 1, WIDTH}}

BlockNext ==
    \/ \E i \in Fresh : \E s \in LongStrings \cup ShortStrings : New(i, s)
    \/ \E s \in ShortStrings : New(2, s)
    \/ Clone(1, 2)
    \/ \E i \in Held : Drop(i)

BlockSpec == FormInit /\ [][BlockNext]_vars

(***************************************************************************)
(* Every way to a value: the constructors of the client program, the two   *)
(* deserializers and clone, filling the first variable and then the second.*)
(***************************************************************************)
\* <ColdString as serde::Deserialize>::deserialize on a string token
FromToken(i, s) ==
    /\ Running /\ ~Live(i)
    /\ Call("ctor", i, 0, s, TRUE, LAMBDA p : deserialize([kind |-> "Str", value |-> s], p))

\* rkyv::deserialize on an ArchivedString
FromArchive(i, s) ==
    /\ Running /\ ~Live(i)
    /\ Call("ctor", i, 0, s, TRUE, LAMBDA p : rkyv_deserialize([archived |-> s], p))

\* the next variable to bind
Vacant == {i \in Free : \A j \in Free : i <= j}

CanonNext ==
    \/ \E i \in Vacant, s \in Strings : New(i, s)
    \/ \E i \in Vacant, v \in Slices : FromUtf8(i, v)
    \/ \E i \in Vacant, v \in Strings : FromUtf8Unchecked(i, v)
    \/ \E i \in Vacant, s \in Strings : NewInlineConst(i, s)
    \/ \E i \in Vacant : Default(i)
    \/ \E i \in Vacant, s \in Strings : From(i, s)
    \/ \E i \in Vacant, s \in Strings : FromToken(i, s)
    \/ \E i \in Vacant, s \in Strings : FromArchive(i, s)
    \/ \E i \in Held, j \in Vacant : Clone(i, j)

CanonSpec == Init /\ [][CanonNext]_vars

(***************************************************************************)
(* Properties.                                                             *)
(***************************************************************************)
\* C1 (round trip): every value constructed from a string S has as_str() = S,
\* as_bytes() = the bytes of S and len() = the byte length of S, in the inline
\* and in the heap form.
C1_RoundTrip ==
    \A i \in LiveSlots :
        /\ as_str(vals[i]) = src[i]
        /\ as_bytes(vals[i]) = src[i]
        /\ len(vals[i]) = Len(src[i])

\* a heap value next to an inline value that fills the whole word
C1_Witness ==
    \E i, j \in LiveSlots :
        /\ Len(src[i]) > WIDTH /\ as_str(vals[i]) = src[i]
        /\ Len(src[j]) = WIDTH /\ len(vals[j]) = WIDTH

\* C2 (form law): a value constructed from S is inline if and only if the
\* byte length of S is at most WIDTH; WIDTH bytes are inline, WIDTH + 1 bytes
\* are on the heap.
C2_FormLaw ==
    \A i \in LiveSlots : is_inline(vals[i]) <=> Len(src[i]) <= WIDTH

\* a string of WIDTH bytes held inline next to one of WIDTH + 1 bytes held on the heap
C2_Witness ==
    \E i, j \in LiveSlots :
        /\ Len(src[i]) = WIDTH /\ is_inline(vals[i])
        /\ Len(src[j]) = WIDTH + 1 /\ ~is_inline(vals[j])

\* C3 (pairwise equality): two values compare equal if and only if the strings
\* they were constructed from are equal, in every combination of forms.
C3_PairwiseEq ==
    \A i, j \in LiveSlots : eq(vals[i], vals[j]) <=> src[i] = src[j]

\* two heap values of the same string in different blocks compare equal
C3_Witness ==
    \E i, j \in LiveSlots :
        /\ i # j /\ ~is_inline(vals[i]) /\ ~is_inline(vals[j])
        /\ vals[i] # vals[j] /\ src[i] = src[j] /\ eq(vals[i], vals[j])

\* C4 (cross-type equality): a value constructed from A compares equal to the
\* string B, and B to the value, if and only if A = B.
C4_CrossTypeEq ==
    \A i, j \in LiveSlots :
        /\ eq_str(vals[i], src[j]) <=> src[i] = src[j]
        /\ str_eq(src[j], vals[i]) <=> src[i] = src[j]

\* a heap value compared with its own string and with another string of the same length
C4_Witness ==
    \E i, j \in LiveSlots :
        /\ ~is_inline(vals[i]) /\ eq_str(vals[i], src[i]) /\ str_eq(src[i], vals[i])
        /\ Len(src[j]) = Len(src[i]) /\ src[j] # src[i] /\ ~eq_str(vals[i], src[j])

HeapSlots == {i \in LiveSlots : ~is_inline(vals[i])}

\* C5 (clone identity): a clone compares equal to the value it was cloned
\* from, hashes alike and yields the same as_str, in both forms.
C5_CloneIdentity ==
    last.kind = "clone" /\ last.ret = "ok" =>
        LET v == vals[last.from]
            c == vals[last.slot]
        IN  /\ eq(c, v) /\ eq(v, c)
            /\ hash(c) = hash(v)
            /\ as_str(c) = as_str(v)

\* a heap value has just been cloned into another block
C5_Witness ==
    /\ last.kind = "clone" /\ last.ret = "ok"
    /\ ~is_inline(vals[last.from]) /\ vals[last.slot] # vals[last.from]
    /\ eq(vals[last.slot], vals[last.from])

\* the state after a clone: the word copied and no allocator call in the inline
\* form, one allocation holding the same header and payload in the heap form
CloneResult ==
    last.kind = "clone" /\ last.ret = "ok" =>
        LET v == vals[last.from]
            c == vals[last.slot]
        IN  IF is_inline(v)
            THEN /\ c = v /\ SelfBytes(c) = SelfBytes(v)
                 /\ last.allocs = 0
            ELSE /\ last.allocs = 1
                 /\ ~is_inline(c)
                 /\ heap_ptr(c) # heap_ptr(v)
                 /\ heap_ptr(c) \in DOMAIN heap /\ heap_ptr(v) \in DOMAIN heap
                 /\ heap[heap_ptr(c)] = heap[heap_ptr(v)]

\* the step of a clone: the block of a heap clone is none of the blocks live
\* before, and the source's word and every block live before are unchanged
CloneStep ==
    last'.kind = "clone" =>
        /\ vals'[last'.from] = vals[last'.from]
        /\ \A a \in DOMAIN heap : a \in DOMAIN heap' /\ heap'[a] = heap[a]
        /\ last'.ret = "ok" /\ ~is_inline(vals[last'.from]) =>
               heap_ptr(vals'[last'.slot]) \notin DOMAIN heap

\* C6 (clone allocation behaviour): cloning an inline value copies the word
\* and reads no allocator; cloning a heap value allocates a block that is none
\* of the live blocks, copies header and payload into it and leaves the source's
\* word and block unchanged.
C6_CloneAlloc == []CloneResult /\ [][CloneStep]_vars

\* an inline value cloned without an allocator call
C6_Witness ==
    /\ last.kind = "clone" /\ last.ret = "ok" /\ last.allocs = 0
    /\ is_inline(vals[last.from]) /\ vals[last.slot] = vals[last.from]
    /\ Len(src[last.from]) = WIDTH

\* C7 (exclusive ownership): no two live values decode to the same heap
\* address, and the allocated blocks are exactly the blocks of the live
\* heap values.
C7_Ownership ==
    /\ \A i, j \in HeapSlots : i # j => heap_ptr(vals[i]) # heap_ptr(vals[j])
    /\ DOMAIN heap = {heap_ptr(vals[i]) : i \in HeapSlots}

\* two heap values, one cloned from the other, each owning a block
C7_Witness ==
    /\ last.kind = "clone" /\ HeapSlots = Slots
    /\ Cardinality(DOMAIN heap) = 2

\* the step of a drop: no allocator call in the inline form, the value's own
\* block released once in the heap form
DropStep ==
    last'.kind = "drop" =>
        LET v == vals[last'.slot]
        IN  /\ last'.ret = "ok"
            /\ IF is_inline(v)
               THEN last'.deallocs = 0 /\ heap' = heap
               ELSE /\ last'.deallocs = 1
                    /\ heap_ptr(v) \in DOMAIN heap
                    /\ DOMAIN heap' = DOMAIN heap \ {heap_ptr(v)}
                    /\ \A a \in DOMAIN heap' : heap'[a] = heap[a]

\* no block is freed twice or with another layout, and none outlives the values
NoLeak ==
    /\ last.ret \notin {"double_free", "bad_layout"}
    /\ LiveSlots = {} => DOMAIN heap = {}

\* C8 (drop): dropping an inline value reads no allocator, dropping a heap
\* value deallocates its own block once; when every value has been dropped
\* no block remains allocated and none was freed twice.
C8_Drop == []NoLeak /\ [][DropStep]_vars

\* the last heap value has been dropped and its block released
C8_Witness ==
    /\ last.kind = "drop" /\ last.ret = "ok" /\ last.deallocs = 1
    /\ LiveSlots = {} /\ DOMAIN heap = {}

\* C9 (hashing): hash writes what hashing as_str() writes, so values that
\* compare equal hash alike in every form, and a value hashes like the str it
\* is equal to, which is also its borrow().
C9_Hash ==
    \A i \in LiveSlots :
        /\ hash(vals[i]) = StrHash(as_str(vals[i]))
        /\ hash(vals[i]) = StrHash(borrow(vals[i]))
        /\ \A j \in LiveSlots :
               /\ eq(vals[i], vals[j]) => hash(vals[i]) = hash(vals[j])
               /\ eq_str(vals[i], src[j]) => hash(vals[i]) = StrHash(src[j])

\* equal heap values in different blocks, with equal hashes
C9_Witness ==
    /\ HeapSlots = Slots /\ vals[1] # vals[2]
    /\ eq(vals[1], vals[2]) /\ hash(vals[1]) = hash(vals[2])
    /\ hash(vals[1]) = StrHash(src[2])

\* C10 (from_utf8): given bytes that are not valid UTF-8, from_utf8 returns
\* Err(Utf8Error), constructs no value and allocates nothing; given valid
\* bytes, the value it returns is the one new returns for the same string; no
\* other constructor returns Utf8Error.
C10_FromUtf8 ==
    /\ last.kind = "from_utf8" /\ ~last.valid =>
           last.ret = "Utf8Error" /\ last.allocs = 0 /\ ~Live(last.slot)
    /\ last.kind = "from_utf8" /\ last.valid =>
           /\ last.ret \in {"ok", "abort"}
           /\ last.ret = "abort" => last.allocs = 1
           /\ last.ret = "ok" =>
                  LET v == vals[last.slot]
                      r == new(src[last.slot], IF is_inline(v) THEN null ELSE heap_ptr(v))
                  IN  /\ Utf8Valid(src[last.slot])
                      /\ r.ret = "ok" /\ r.encoded = v
                      /\ r.block # NoBlock => heap[r.at] = r.block
    /\ last.kind \in {"ctor", "clone"} => last.ret # "Utf8Error"

\* from_utf8 has just refused a malformed slice while another value is live
C10_Witness ==
    /\ last.kind = "from_utf8" /\ last.ret = "Utf8Error" /\ ~last.valid
    /\ ~Live(last.slot) /\ HeapSlots # {}

\* what a call that reached handle_alloc_error leaves: no value, no block
Aborted(r) == r.ret = "abort" /\ r.encoded = NoVal /\ r.block = NoBlock /\ r.allocs = 1

\* the state after a failed allocation, and what new and clone do with a null
\* answer for the strings and values at hand
AllocFailState ==
    /\ last.ret = "abort" =>
           /\ last.kind \in {"ctor", "from_utf8", "clone"}
           /\ last.allocs = 1 /\ ~Live(last.slot)
           /\ last.kind = "clone" => ~is_inline(vals[last.from])
    /\ null \notin DOMAIN heap
    /\ \A i \in LiveSlots :
           IF Len(src[i]) > WIDTH
           THEN /\ heap_ptr(vals[i]) # null
                /\ Aborted(new(src[i], null))
                /\ Aborted(clone(vals[i], null))
           ELSE /\ new(src[i], null).ret = "ok" /\ new(src[i], null).allocs = 0
                /\ clone(vals[i], null).ret = "ok" /\ clone(vals[i], null).allocs = 0

\* the step of a failed allocation changes no value and no block, and no step follows it
AllocFailStep ==
    /\ last.ret # "abort"
    /\ last'.ret = "abort" => vals' = vals /\ src' = src /\ heap' = heap

\* C11 (allocation failure): when alloc returns null in new_heap, reached from
\* new with more than WIDTH bytes or from clone of a heap value, the call ends
\* in handle_alloc_error: nothing is written, no value and no error value is
\* returned, and the program does not continue.
C11_AllocFailure == []AllocFailState /\ [][AllocFailStep]_vars

\* the clone of a heap value has just failed to allocate
C11_Witness ==
    /\ last.ret = "abort" /\ last.kind = "clone" /\ last.allocs = 1
    /\ ~is_inline(vals[last.from]) /\ ~Live(last.slot)
    /\ Cardinality(DOMAIN heap) = 1

C14_VarIntRoundTrip ==
    /\ last.kind \in {"vint_write", "vint_read"} => last.wrote >= 1 /\ last.wrote <= 10
    /\ last.kind = "vint_read" => last.y = last.value /\ last.read = last.wrote

\* u64::MAX written in 10 bytes and read back
C14_Witness ==
    /\ last.kind = "vint_read" /\ last.value = Ones(0, 64)
    /\ last.wrote = 10 /\ last.read = 10 /\ last.y = last.value

\* C15 (layout): size_of::<ColdString>() = size_of::<usize>() and
\* align_of::<ColdString>() = 1; a struct of a ColdString and a u8 has size
\* WIDTH + 1 and alignment 1; a value's storage is size_of::<ColdString>() bytes.
C15_Layout ==
    /\ ColdStringLayout.size = WIDTH /\ ColdStringLayout.align = 1
    /\ FooLayout.size = WIDTH + 1 /\ FooLayout.align = 1
    /\ \A i \in LiveSlots : Len(SelfBytes(vals[i])) = ColdStringLayout.size

\* a 4-byte target with a value stored in size_of::<ColdString>() = 4 bytes
C15_Witness ==
    /\ WIDTH = 4 /\ FooLayout.size = 5 /\ ColdStringLayout.align = 1
    /\ \E i \in LiveSlots : Len(SelfBytes(vals[i])) = ColdStringLayout.size

\* C16 (unaligned placement): a value of any form written at any byte
\* offset 0..WIDTH-1 of a buffer and read from there is the same word, has
\* as_str() equal to the string it was constructed from, and compares equal
\* to the original.
C16_Unaligned ==
    last.kind = "read_unaligned" =>
        LET v == vals[last.slot]
        IN  /\ v = last.word
            /\ as_str(v) = last.s /\ as_bytes(v) = last.s /\ len(v) = Len(last.s)
            /\ is_inline(v) <=> Len(last.s) <= WIDTH
            /\ eq(v, last.word) /\ eq_str(v, last.s)

\* a heap value read back from the odd offset WIDTH - 1
C16_Witness ==
    /\ last.kind = "read_unaligned" /\ last.offset = WIDTH - 1
    /\ ~is_inline(vals[last.slot]) /\ as_str(vals[last.slot]) = last.s

\* C17 (serialization adapters): serialize emits the string token of
\* as_str(), deserialize of a string token T returns new(T), so a value
\* deserialized from what a value serialized to is equal to it; the rkyv
\* adapter archives the string view and deserializes to an equal value.
C17_Serde ==
    /\ last.kind = "serialize" =>
           /\ last.token = [kind |-> "Str", value |-> src[last.slot]]
           /\ last.token.value = as_str(vals[last.slot])
    /\ last.kind = "rkyv_serialize" =>
           /\ last.bytes.archived = src[last.slot]
           /\ archived_eq(last.bytes, vals[last.slot])
    /\ last.kind \in {"deserialize", "rkyv_deserialize"} /\ last.ret = "ok" =>
           LET v == vals[last.from]
               d == vals[last.slot]
               r == new(src[last.from], IF is_inline(d) THEN null ELSE heap_ptr(d))
           IN  /\ d = r.encoded
               /\ r.block # NoBlock => heap[r.at] = r.block
               /\ eq(d, v) /\ eq(v, d)
               /\ as_str(d) = as_str(v) /\ as_str(d) = src[last.from]

\* a heap value deserialized from its serde token into a block of its own
C17_Witness ==
    /\ last.kind = "deserialize" /\ last.ret = "ok"
    /\ ~is_inline(vals[last.slot]) /\ vals[last.slot] # vals[last.from]
    /\ eq(vals[last.slot], vals[last.from])

\* C18 (endianness independence): the same strings constructed at the same
\* 4-aligned heap addresses on the host of the other byte order show the same
\* is_inline, len, is_empty, as_bytes and equality results.
C18_Endianness ==
    last.kind = "rerun" => Observed = last.seen /\ LiveSlots = Slots

\* a heap and an inline value observed on a little-endian host, now on a big-endian one
C18_Witness ==
    /\ last.kind = "rerun" /\ target.big
    /\ ~is_inline(vals[1]) /\ is_inline(vals[2]) /\ Len(src[2]) = WIDTH
    /\ Observed = last.seen

\* every finished accessor call returned what the call returns in isolation
ReadersAgree ==
    \A r \in Readers : reads[r].pc = "done" => reads[r].ret = reads[r].alone

\* no step changes the word or the block of a value that is live before and after it
StableStep ==
    \A i \in Slots :
        vals[i] # NoVal /\ vals'[i] # NoVal =>
            /\ vals'[i] = vals[i]
            /\ ~is_inline(vals[i]) =>
                   /\ heap_ptr(vals[i]) \in DOMAIN heap
                   /\ heap_ptr(vals[i]) \in DOMAIN heap'
                   /\ heap'[heap_ptr(vals[i])] = heap[heap_ptr(vals[i])]

\* C19 (immutability, read-only sharing): between its construction and its
\* drop no operation, accessor, clone or operation on another value, changes
\* a value's encoded word or heap block, and under every interleaving of
\* readers with each other and with the owner each accessor call returns
\* what it returns in isolation.
C19_Immutable == []ReadersAgree /\ [][StableStep]_vars

\* both readers have finished a call on a heap value whose clone was dropped meanwhile
C19_Witness ==
    /\ \A r \in Readers : reads[r].pc = "done" /\ reads[r].ret = reads[r].alone
    /\ last.kind = "drop" /\ last.deallocs = 1
    /\ ~is_inline(vals[1])

\* the form the layout table gives a discriminant byte
ByteForm(d) ==
    IF d \div 64 = 2 THEN "heap"
    ELSE IF d \div 8 = 31 THEN "short-inline"
    ELSE "full-inline"

\* C20 (discriminant decoding agrees with construction): for a value built
\* from a string of L bytes the discriminant byte is 0b11111000 | L when
\* L < W (0b11111000 for "", 0b11111110 for "qwerty" on 8 bytes) and the value
\* decodes as short-inline of length L; it is the first byte of the string,
\* neither 10xxxxxx nor 11111xxx, when L = W and the value decodes as
\* full-inline of length W; it is 10xxxxxx when L > W and the value decodes as
\* heap.  The form read off the byte is always the form the accessors take.
C20_Discriminant ==
    \A i \in LiveSlots :
        LET v == vals[i]
            s == src[i]
            L == Len(s)
            d == discriminant(v)
        IN  /\ ByteForm(d) = decoded_form(v)
            /\ L < WIDTH =>
                   /\ d = Or8(248, L)
                   /\ decoded_form(v) = "short-inline" /\ inline_len(v) = L
            /\ L = WIDTH =>
                   /\ d = s[1] /\ d \div 64 # 2 /\ d \div 8 # 31
                   /\ decoded_form(v) = "full-inline" /\ inline_len(v) = WIDTH
            /\ L > WIDTH => d \div 64 = 2 /\ decoded_form(v) = "heap"
            /\ s = <<>> => d = 248
            /\ s = qwerty /\ WIDTH = 8 => d = 254

\* "qwerty" short-inline on 8 bytes next to a full-inline string that begins
\* with the lead byte 0xF4, the nearest to the short-inline tag
C20_Witness ==
    /\ WIDTH = 8 /\ LiveSlots = Slots
    /\ src[1] = qwerty /\ discriminant(vals[1]) = 254
    /\ Len(src[2]) = WIDTH /\ src[2][1] = 244 /\ decoded_form(vals[2]) = "full-inline"

\* the statement as documented: the tag byte is the least-significant byte of
\* the word, at memory index W-1 on a big-endian host
C21_Documented ==
    \A i \in LiveSlots :
        Len(src[i]) < WIDTH =>
            /\ SelfBytes(vals[i])[IF target.big THEN WIDTH ELSE 1] = Or8(248, Len(src[i]))
            /\ vals[i][1] = Or8(248, Len(src[i]))

\* C21 (tag byte position), amended: the tag byte is the byte at memory index
\* 0 on both byte orders, the least-significant byte of the word on a
\* little-endian host and the most-significant one on a big-endian host; tag()
\* selects that byte only, and the bytes of a short-inline string follow it.
C21_TagAtIndex0 ==
    \A i \in LiveSlots :
        LET v == vals[i]
            s == src[i]
            m == SelfBytes(v)
        IN  /\ tag_index = 0
            /\ to_ne_bytes(tag(v)) = [k \in 1..WIDTH |-> IF k = 1 THEN And8(m[1], 192) ELSE 0]
            /\ v[IF target.big THEN WIDTH ELSE 1] = m[1]
            /\ Len(s) < WIDTH =>
                   /\ m[1] = Or8(248, Len(s))
                   /\ \A k \in 1..Len(s) : m[k + 1] = s[k]

\* a short-inline value on a big-endian host whose byte at memory index W-1
\* is not the tag
C21_Witness ==
    /\ target.big
    /\ \E i \in LiveSlots :
           /\ Len(src[i]) < WIDTH
           /\ SelfBytes(vals[i])[1] = Or8(248, Len(src[i]))
           /\ SelfBytes(vals[i])[WIDTH] # Or8(248, Len(src[i]))

\* C22 (heap address round trip): for every address a that is a multiple of
\* HEAP_ALIGN, the word encoded from a has a discriminant byte of the form
\* 10xxxxxx, is not inline, and heap_ptr returns exactly a, a multiple of 4:
\* no address bit is lost.
C22_AddrRoundTrip ==
    /\ \A i \in LiveSlots :
           /\ discriminant(vals[i]) \div 64 = 2
           /\ ~is_inline(vals[i])
           /\ DOMAIN heap = {heap_ptr(vals[i])}
           /\ heap_ptr(vals[i])[1] % HEAP_ALIGN = 0
    /\ last.kind = "heap_ptr" => DOMAIN heap = {last.ptr}

\* heap_ptr has returned an address with its highest and its lowest free bit set
C22_Witness ==
    /\ last.kind = "heap_ptr" /\ last.ptr \in DOMAIN heap
    /\ last.ptr[WIDTH] >= 128 /\ last.ptr[1] % 8 = 4

\* C23 (heap block invariant): for every live heap value of length L, built
\* by new or by clone, the block at the recovered address starts with the
\* varint encoding of L, which decodes to exactly L = len(); the L bytes of
\* the string follow immediately; the block was allocated with size
\* varint_bytes(L) + L and alignment HEAP_ALIGN; the address is a multiple
\* of HEAP_ALIGN.
C23_HeapBlock ==
    \A i \in LiveSlots :
        ~is_inline(vals[i]) =>
            LET a == heap_ptr(vals[i])
                L == Len(src[i])
                w == VarInt_write(ToU64(L))
            IN  /\ a \in DOMAIN heap
                /\ a[1] % HEAP_ALIGN = 0
                /\ w.n = (IF L < 128 THEN 1 ELSE IF L < 16384 THEN 2 ELSE 3)
                /\ SubSeq(heap[a].mem, 1, w.n) = SubSeq(w.buf, 1, w.n)
                /\ VarInt_read(a) = [value |-> ToU64(L), n |-> w.n]
                /\ len(vals[i]) = L
                /\ SubSeq(heap[a].mem, w.n + 1, w.n + L) = src[i]
                /\ heap[a].size = w.n + L /\ Len(heap[a].mem) = w.n + L
                /\ heap[a].align = HEAP_ALIGN

\* a value of 16384 bytes, whose header takes three bytes, next to its clone
C23_Witness ==
    /\ last.kind = "clone" /\ LiveSlots = Slots
    /\ \A i \in Slots : ~is_inline(vals[i]) /\ Len(src[i]) = 16384
    /\ heap_ptr(vals[1]) # heap_ptr(vals[2])
    /\ VarInt_read(heap_ptr(vals[2])).n = 3

\* a step that drops a heap value passes dealloc the address alloc returned
\* for its block and the size and alignment alloc was given, and frees it
DeallocStep ==
    \A i \in Slots :
        vals[i] # NoVal /\ vals'[i] = NoVal /\ ~is_inline(vals[i]) =>
            \E c \in {drop(vals[i])[1]} :
                /\ c.ptr \in DOMAIN heap
                /\ c.size = heap[c.ptr].size /\ c.align = heap[c.ptr].align
                /\ c.size = VarInt_write(ToU64(Len(src[i]))).n + Len(src[i])
                /\ c.align = HEAP_ALIGN
                /\ DOMAIN heap' = DOMAIN heap \ {c.ptr}
                /\ last'.ret = "ok" /\ last'.deallocs = 1

\* C24 (deallocation layout): when a heap value is dropped, the size
\* recomputed from the block (header bytes + decoded length) and the alignment
\* HEAP_ALIGN are those the block was allocated with, and the pointer given
\* to dealloc is the address alloc returned.
C24_DeallocLayout == [][DeallocStep]_vars /\ [](last.ret \notin {"double_free", "bad_layout"})

\* a value with a two-byte header was dropped while its clone lives on
C24_Witness ==
    /\ last.kind = "drop" /\ last.ret = "ok" /\ last.deallocs = 1
    /\ Cardinality(DOMAIN heap) = 1
    /\ \E j \in LiveSlots : Len(src[j]) = 128 /\ heap_ptr(vals[j]) \in DOMAIN heap

\* C25 (varint length bound): a value below 2^63, as every string length a
\* 64-bit host can address is, is written in at most 9 bytes, in exactly 9
\* from 2^56 on; the 10th byte is written for the values from 2^63 on and
\* for no other.
C25_LengthBound ==
    last.kind \in {"vint_write", "vint_read"} =>
        /\ last.value[U64_BYTES] < 128 => last.wrote <= 9
        /\ last.value[U64_BYTES] \in 1..127 => last.wrote = 9
        /\ last.value[U64_BYTES] >= 128 <=> last.wrote = 10

\* 2^63 - 1, the largest length of a 64-bit host, written in 9 bytes
C25_Witness ==
    /\ last.kind = "vint_write" /\ last.value = Ones(0, 63)
    /\ last.wrote = 9

\* C26 (canonicalization): every live value, whichever constructor,
\* deserializer or clone produced it, is inline when its length is at most W
\* and on the heap when it is W + 1 or more; so an inline value and a heap
\* value never have equal byte views, and eq answers false for them rightly.
C26_Canonical ==
    /\ \A i \in LiveSlots :
           /\ len(vals[i]) = Len(src[i])
           /\ len(vals[i]) <= WIDTH => is_inline(vals[i])
           /\ len(vals[i]) >= WIDTH + 1 => ~is_inline(vals[i])
    /\ \A i, j \in LiveSlots :
           is_inline(vals[i]) # is_inline(vals[j]) =>
               /\ as_bytes(vals[i]) # as_bytes(vals[j])
               /\ src[i] # src[j]
               /\ ~eq(vals[i], vals[j])

\* a full-inline value next to a heap value that begins with the same W bytes
C26_Witness ==
    \E i, j \in LiveSlots :
        /\ is_inline(vals[i]) /\ Len(src[i]) = WIDTH
        /\ ~is_inline(vals[j]) /\ SubSeq(src[j], 1, WIDTH) = src[i]
        /\ ~eq(vals[i], vals[j])

\* C27 (inline word equality): two inline values, short or full, have
\* byte-equal words if and only if their strings are equal, which is what eq
\* answers for them; in a short-inline word every byte after the tag and the
\* L bytes of the string is zero, also when the string itself holds NUL bytes.
C27_InlineWords ==
    /\ \A i, j \in LiveSlots :
           is_inline(vals[i]) /\ is_inline(vals[j]) =>
               /\ SelfBytes(vals[i]) = SelfBytes(vals[j]) <=> src[i] = src[j]
               /\ eq(vals[i], vals[j]) <=> src[i] = src[j]
    /\ \A i \in LiveSlots :
           is_inline(vals[i]) /\ Len(src[i]) < WIDTH =>
               \A k \in (Len(src[i]) + 2)..WIDTH : SelfBytes(vals[i])[k] = 0

\* two strings of NUL bytes of different lengths, inline, in unequal words
C27_Witness ==
    \E i, j \in LiveSlots :
        /\ src[i] = <<0>> /\ Len(src[j]) = 2 /\ src[j][1] = 0 /\ src[j][2] = 0
        /\ is_inline(vals[i]) /\ is_inline(vals[j])
        /\ SelfBytes(vals[i]) # SelfBytes(vals[j]) /\ ~eq(vals[i], vals[j])

\* C28 (byte views stay inside owned storage): the bytes as_bytes returns lie
\* within the storage of the value.  Inline: start + len <= W, with start = 1
\* and len <= W - 1 for short-inline, start = 0 and len = W for full-inline.
\* Heap: VarInt::read consumes the header bytes of the live block and no
\* more, and the view of len bytes after the header ends exactly where the
\* allocated block ends.
C28_ViewInBounds ==
    \A i \in LiveSlots :
        \E v \in {vals[i]} :
            IF is_inline(v)
            THEN \E l \in {inline_len(v)} :
                    /\ utf8_start(l) + l <= WIDTH
                    /\ IF decoded_form(v) = "short-inline"
                       THEN utf8_start(l) = 1 /\ l <= WIDTH - 1
                       ELSE utf8_start(l) = 0 /\ l = WIDTH
                    /\ \A k \in 1..l : decode_inline(v)[k] # Wild
            ELSE \E a \in {heap_ptr(v)} : \E r \in {VarInt_read(a)} :
                    /\ a \in DOMAIN heap
                    /\ r.value # NoU64
                    /\ r.n = VarInt_write(ToU64(Len(src[i]))).n
                    /\ r.n + AsUsize(r.value) = heap[a].size
                    /\ \E view \in {decode_heap(v)} :
                           /\ Len(view) = AsUsize(r.value)
                           /\ \A k \in 1..Len(view) : view[k] # Wild

\* a heap value with a header of three bytes next to a full-inline value
C28_Witness ==
    /\ LiveSlots = Slots
    /\ ~is_inline(vals[1]) /\ VarInt_read(heap_ptr(vals[1])).n = 3
    /\ heap[heap_ptr(vals[1])].size = 3 + 16384
    /\ decoded_form(vals[2]) = "full-inline" /\ Len(as_bytes(vals[2])) = WIDTH

====
